---- MODULE Spec2Model ----
(***************************************************************************)
(* Checkout completion (chat_backend/acp_client.py) against the mock       *)
(* shared-payment-token issuer (mock_stripe_spt/server.py).                *)
(*                                                                         *)
(* Python values are represented as follows.                               *)
(*   Optional[x]    None is <<>>, a present value x is <<x>>               *)
(*   numeric text   a form field holding a number is a sequence of         *)
(*                  one-character strings, <<"1","2">> for "12"            *)
(*   JSON number    [t |-> "int", v |-> n], or [t |-> "float", v |-> n]    *)
(*                  for the non-integer n + 0.5                            *)
(*   dict           a record; a key that may be missing is an Optional     *)
(***************************************************************************)
EXTENDS Integers, Sequences, FiniteSets, TLC

\* ------------------------------------------------------------------ bounds
MaxTicks == 1        \* seconds that pass
MaxRuns == 1         \* client operations invoked
MaxDirect == 2       \* issuance requests sent to the issuer by other callers
MaxTotals == 2       \* length of a checkout's totals sequence
Epoch == 1700000000  \* clock reading in the initial state

\* --------------------------------------------------------------- constants
SPT_EXPIRATION_DAYS == 1
SecondsPerDay == 86400

\* ---------------------------------------------------------------- Optional
None == <<>>
Some(x) == <<x>>
Val(o) == o[1]

\* ------------------------------------------------------- str(int), int(str)
DigitChars == <<"0", "1", "2", "3", "4", "5", "6", "7", "8", "9">>

DigitOf(c) == CHOOSE d \in 0..9 : DigitChars[d + 1] = c

IsDigit(c) == \E d \in 0..9 : DigitChars[d + 1] = c

RECURSIVE NatToStr(_)
NatToStr(n) ==
    IF n < 10 THEN <<DigitChars[n + 1]>>
    ELSE Append(NatToStr(n \div 10), DigitChars[(n % 10) + 1])

\* str(n) for a Python int
IntToStr(n) == IF n < 0 THEN <<"-">> \o NatToStr(-n) ELSE NatToStr(n)

\* str(x) for the JSON numbers of the model: a float prints with its fraction
PyNumToStr(x) ==
    IF x.t = "int" THEN IntToStr(x.v) ELSE NatToStr(x.v) \o <<".", "5">>

RECURSIVE DigitsVal(_)
DigitsVal(s) ==
    IF Len(s) = 0 THEN 0
    ELSE 10 * DigitsVal(SubSeq(s, 1, Len(s) - 1)) + DigitOf(s[Len(s)])

AllDigits(s) == Len(s) > 0 /\ \A i \in 1..Len(s) : IsDigit(s[i])

\* int(s): None stands for the ValueError int() raises
ParseInt(s) ==
    IF Len(s) > 0 /\ s[1] \in {"-", "+"}
    THEN IF AllDigits(Tail(s))
         THEN Some(IF s[1] = "-" THEN -DigitsVal(Tail(s)) ELSE DigitsVal(Tail(s)))
         ELSE None
    ELSE IF AllDigits(s) THEN Some(DigitsVal(s)) ELSE None

\* ------------------------------------------------------------------ issuer
\* generate_spt_id returns "spt_" and 24 hexadecimal digits of secrets.token_hex
IdSpace == {"spt_0f1e2d3c4b5a69788796a5b4", "spt_a1b2c3d4e5f60718293a4b5c"}

generate_spt_id == IdSpace

\* the request threads of the server
Workers == {"t1", "t2"}

\* the test written `payment_method is None`
PaymentMethodIsNone(payment_method) == payment_method = None

\* `not payment_method`
PaymentMethodMissing(payment_method) ==
    payment_method = None \/ Val(payment_method) = ""

\* data.get(key, default)
FormGet(field, default) == IF field = None THEN Some(default) ELSE field

\* `if x` for an Optional[str]
Truthy(x) == x # None /\ Val(x) # <<>>

\* IntOrNone with the truth test applied to the converted number
IntOrNoneZeroIsNone(x) ==
    IF ~Truthy(x) \/ ParseInt(Val(x)) = Some(0) THEN [raised |-> FALSE, val |-> None]
    ELSE [raised |-> ParseInt(Val(x)) = None, val |-> ParseInt(Val(x))]

\* int(x) if x else None; raised stands for the ValueError of int()
IntOrNone(x) ==
    IF ~Truthy(x) THEN [raised |-> FALSE, val |-> None]
    ELSE [raised |-> ParseInt(Val(x)) = None, val |-> ParseInt(Val(x))]

\* the dict as it is before its last two keys are written
SptDataHalfWritten(spt_id, form, t) ==
    [ id |-> spt_id,
      payment_method |-> Val(form.payment_method),
      usage_limits |->
          [ currency |-> FormGet(form.currency, "usd"),
            max_amount |-> IntOrNone(form.max_amount).val,
            expires_at |-> IntOrNone(form.expires_at).val ],
      seller_details |->
          [ network_id |-> form.network_id, external_id |-> form.external_id ] ]

\* the dict stored under spt_storage[spt_id]
SptData(spt_id, form, t) ==
    [ id |-> spt_id,
      payment_method |-> Val(form.payment_method),
      usage_limits |->
          [ currency |-> FormGet(form.currency, "usd"),
            max_amount |-> IntOrNone(form.max_amount).val,
            expires_at |-> IntOrNone(form.expires_at).val ],
      seller_details |->
          [ network_id |-> form.network_id, external_id |-> form.external_id ],
      created_at |-> t,
      status |-> "active" ]

SptDataRaises(form) ==
    IntOrNone(form.max_amount).raised \/ IntOrNone(form.expires_at).raised

ErrorEnvelope(status, type, code) ==
    [status |-> status, json |-> [error |-> [type |-> type, code |-> code]]]

CreatedResponse(spt_id, t) ==
    [ status |-> 201,
      json |-> [ id |-> spt_id, object |-> "shared_payment.issued_token",
                 created |-> t, livemode |-> FALSE ] ]

\* the expiry test written with >=
IsExpiredAtDeadline(spt_data, t) ==
    /\ spt_data.usage_limits.expires_at # None
    /\ Val(spt_data.usage_limits.expires_at) # 0
    /\ t >= Val(spt_data.usage_limits.expires_at)

\* `if expires_at: if int(time.time()) > expires_at`
IsExpired(spt_data, t) ==
    /\ spt_data.usage_limits.expires_at # None
    /\ Val(spt_data.usage_limits.expires_at) # 0
    /\ t > Val(spt_data.usage_limits.expires_at)

GrantedResponse(spt_id, spt_data) ==
    [ status |-> 200,
      json |-> [ id |-> spt_id, object |-> "shared_payment.granted_token",
                 payment_method |-> spt_data.payment_method,
                 usage_limits |-> spt_data.usage_limits,
                 seller_details |-> spt_data.seller_details,
                 created |-> spt_data.created_at,
                 status |-> spt_data.status,
                 livemode |-> FALSE ] ]

\* ------------------------------------------------------------------ client
DEFAULT_PAYMENT_PROVIDER == "stripe"

\* one entry of a checkout's totals; type None is an entry without a type key
TotalTypes == {None, Some("subtotal"), Some("total")}

Amounts ==
    {[t |-> "int", v |-> 0], [t |-> "int", v |-> 1200], [t |-> "float", v |-> 12]}

TotalEntries == [type : TotalTypes, amount : Amounts]

RECURSIVE SeqsUpTo(_, _)
SeqsUpTo(S, n) ==
    IF n = 0 THEN {<<>>}
    ELSE SeqsUpTo(S, n - 1) \cup
         {Append(q, x) : q \in {r \in SeqsUpTo(S, n - 1) : Len(r) = n - 1}, x \in S}

\* every body a seller can return for GET /checkout_sessions/{id}
CheckoutBodies ==
    {[id |-> "cs_1", totals |-> t] : t \in SeqsUpTo(TotalEntries, MaxTotals)}
        \cup {[id |-> "cs_1"]}

\* the bodies the seller of the protocol runs returns
SellerCheckouts ==
    LET entry(type, t, v) == [type |-> Some(type), amount |-> [t |-> t, v |-> v]]
    IN  { [id |-> "cs_1"],
          [id |-> "cs_1", totals |-> <<entry("subtotal", "int", 1200)>>],
          [id |-> "cs_1", totals |-> <<entry("subtotal", "int", 0),
                                       entry("total", "int", 1200)>>],
          [id |-> "cs_1", totals |-> <<entry("total", "int", 0)>>],
          [id |-> "cs_1", totals |-> <<entry("total", "float", 12)>>],
          [id |-> "cs_1", totals |-> <<entry("total", "int", 1200),
                                       entry("total", "int", 0)>>] }

\* what the transport can do with one request to the seller
SellerOutcomes(bodies) ==
    {[kind |-> "ok", json |-> b] : b \in bodies}
        \cup {[kind |-> "http_error", status |-> st] : st \in {404, 500}}
        \cup {[kind |-> "no_response"]}

\* the result of a client operation: what it returns, or the exception it raises
Returned(value) == [exc |-> None, ret |-> Some(value)]
Raised(name) == [exc |-> Some(name), ret |-> None]

\* _make_request whose error result leaves the status code out
MakeRequestNoStatus(method, endpoint, data, outcome) ==
    IF method \notin {"GET", "POST", "PUT"} THEN Raised("ValueError")
    ELSE IF outcome.kind = "ok" THEN Returned(outcome.json)
    ELSE IF outcome.kind = "http_error"
         THEN Returned([error |-> "HTTPError", status_code |-> None])
    ELSE Returned([error |-> "ConnectionError", status_code |-> None])

_make_request(method, endpoint, data, outcome) ==
    IF method \notin {"GET", "POST", "PUT"} THEN Raised("ValueError")
    ELSE IF outcome.kind = "ok" THEN Returned(outcome.json)
    ELSE IF outcome.kind = "http_error"
         THEN Returned([error |-> "HTTPError", status_code |-> Some(outcome.status)])
    ELSE Returned([error |-> "ConnectionError", status_code |-> None])

\* a request sent to the seller, with what the transport did with it
SellerCall(method, endpoint, data, outcome) ==
    [to |-> "seller", method |-> method, endpoint |-> endpoint, data |-> data,
     outcome |-> Some(outcome)]

\* ScanTotals that keeps scanning after a match
RECURSIVE ScanTotalsLast(_)
ScanTotalsLast(totals) ==
    IF totals = <<>> THEN None
    ELSE IF ScanTotalsLast(Tail(totals)) # None THEN ScanTotalsLast(Tail(totals))
    ELSE IF Head(totals).type = Some("total") THEN Some(Head(totals).amount)
    ELSE None

\* the loop of _extract_total_amount_from_checkout over totals
RECURSIVE ScanTotals(_)
ScanTotals(totals) ==
    IF totals = <<>> THEN None
    ELSE IF Head(totals).type = Some("total") THEN Some(Head(totals).amount)
    ELSE ScanTotals(Tail(totals))

\* total extraction that falls back to 0 instead of raising
ExtractTotalDefaultZero(checkout_response) ==
    LET found == ScanTotals(IF "totals" \in DOMAIN checkout_response
                            THEN checkout_response.totals ELSE <<>>)
    IN  IF found = None THEN Some([t |-> "int", v |-> 0]) ELSE found

\* None stands for the ValueError raised when no entry is found
_extract_total_amount_from_checkout(checkout_response) ==
    ScanTotals(IF "totals" \in DOMAIN checkout_response
               THEN checkout_response.totals ELSE <<>>)

\* datetime.now() + timedelta(days=days_ahead) is the same wall-clock time of
\* the local zone on a later day; timestamp() reads it back as Unix time. shift
\* is the change of the local UTC offset in between, in seconds
_calculate_expiration_timestamp(t, days_ahead, shift) ==
    t + days_ahead * SecondsPerDay + shift

\* complete_checkout computes the same with timedelta(days=1) written out
Tomorrow(t, shift) == t + SecondsPerDay + shift

\* the form requests.post encodes from the data dict of complete_checkout
IssuanceForm(payment_token, total_amount, expires_at_timestamp) ==
    [ payment_method |-> Some(payment_token),
      currency |-> Some("usd"),
      max_amount |-> Some(PyNumToStr(total_amount)),
      expires_at |-> Some(IntToStr(expires_at_timestamp)),
      network_id |-> Some("internal"),
      external_id |-> Some("stripe_test_merchant") ]

\* ResponseId read with .get('id', ''), which never raises
ResponseIdOrEmpty(response) ==
    IF "id" \in DOMAIN response.json THEN Some(response.json.id) ELSE Some("")

\* get_pst_token_response.json()['id']; None stands for the KeyError
ResponseId(response) ==
    IF "id" \in DOMAIN response.json THEN Some(response.json.id) ELSE None

\* `if billing_address`
HasBilling(billing_address) == billing_address # None /\ Val(billing_address) # {}

\* a completion body that carries the token complete_checkout was given
CompletionDataBuyerToken(payment_token, spt_token_id, payment_provider, billing_address) ==
    [ payment_data |-> [token |-> payment_token, provider |-> payment_provider],
      billing_address |-> IF HasBilling(billing_address) THEN billing_address ELSE None ]

\* the body of the completion call
CompletionData(payment_token, spt_token_id, payment_provider, billing_address) ==
    [ payment_data |-> [token |-> spt_token_id, provider |-> payment_provider],
      billing_address |-> IF HasBilling(billing_address) THEN billing_address ELSE None ]

\* ------------------------------------------------------------------- state
VARIABLES
    now,          \* the clock read by time.time() and datetime.now()
    ticks,        \* how often the clock has advanced
    spt_storage,  \* server.py: spt_storage, spt_id -> stored dict
    worker,       \* per issuer thread: the request it serves and how far it is;
                  \* total is the total of the complete_checkout run that sent it
    direct,       \* issuance requests received from callers other than the client
    client,       \* complete_checkout: its arguments, locals and position
    calls,        \* the requests the current client operation has sent, in order
    result,       \* what the last finished client operation returned or raised
    runs          \* client operations invoked so far

vars == <<now, ticks, spt_storage, worker, direct, client, calls, result, runs>>

IdleWorker ==
    [pc |-> "idle", op |-> "none", origin |-> "none", total |-> None,
     form |-> None, spt_id |-> None, read_at |-> None, resp |-> None]

IdleClient ==
    [pc |-> "idle", op |-> "none", args |-> None, checkout_response |-> None,
     total_amount |-> None, expires_at_timestamp |-> None, form |-> None,
     issuer_response |-> None]

NoResult == [op |-> "none", exc |-> None, ret |-> None]

Init ==
    /\ now = Epoch
    /\ ticks = 0
    /\ spt_storage = <<>>
    /\ worker = [w \in Workers |-> IdleWorker]
    /\ direct = 0
    /\ client = IdleClient
    /\ calls = <<>>
    /\ result = NoResult
    /\ runs = 0

\* ------------------------------------------------------------------- clock
Tick ==
    /\ ticks < MaxTicks
    /\ now' = now + 1
    /\ ticks' = ticks + 1
    /\ UNCHANGED <<spt_storage, worker, direct, client, calls, result, runs>>

\* ------------------------------------------------- issuer: request handlers
\* forms other callers post to /v1/shared_payment/issued_tokens
Chars(n) == Some(IntToStr(n))

BareForm ==
    [payment_method |-> None, currency |-> None, max_amount |-> None,
     expires_at |-> None, network_id |-> None, external_id |-> None]

DirectForms ==
    LET visa == [BareForm EXCEPT !.payment_method = Some("pm_card_visa")]
        full == [visa EXCEPT !.currency = Some("eur"),
                             !.network_id = Some("internal"),
                             !.external_id = Some("merchant_7")]
    IN  { BareForm,
          [BareForm EXCEPT !.payment_method = Some(""), !.max_amount = Chars(1200)],
          [visa EXCEPT !.max_amount = Chars(1200)],
          [full EXCEPT !.max_amount = Chars(0), !.expires_at = Chars(0)],
          [full EXCEPT !.max_amount = Chars(-5), !.expires_at = Chars(Epoch)],
          [visa EXCEPT !.max_amount = Some(<<>>), !.expires_at = Chars(Epoch)],
          [visa EXCEPT !.max_amount = Some(<<"1", "2", ".", "5">>)],
          [visa EXCEPT !.max_amount = Chars(1200),
                       !.expires_at = Some(<<"s", "o", "o", "n">>)] }

LookupIds == IdSpace \cup {"spt_000000000000000000000000"}

\* create_spt, lines 30-50: read the form, reject a missing payment_method,
\* draw the identifier
CreateSptBegin(w, form, origin, total) ==
    /\ worker[w].pc = "idle"
    /\ IF PaymentMethodMissing(form.payment_method)
       THEN worker' = [worker EXCEPT ![w] =
                [IdleWorker EXCEPT !.pc = "respond", !.op = "create_spt",
                    !.origin = origin, !.total = total,
                    !.form = Some(form),
                    !.resp = Some(ErrorEnvelope(400, "invalid_request",
                                                "missing_payment_method"))]]
       ELSE \E spt_id \in generate_spt_id :
                worker' = [worker EXCEPT ![w] =
                    [IdleWorker EXCEPT !.pc = "create_store", !.op = "create_spt",
                        !.origin = origin, !.total = total,
                    !.form = Some(form),
                        !.spt_id = Some(spt_id)]]

\* spt_storage[spt_id] = value
Store(storage, spt_id, value) ==
    [k \in DOMAIN storage \cup {spt_id} |->
        IF k = spt_id THEN value ELSE storage[k]]

\* create_spt that stores the dict before it converts the amounts
CreateSptStoreUnconverted(w) ==
    /\ worker[w].pc = "create_store"
    /\ LET form == Val(worker[w].form)
           spt_id == Val(worker[w].spt_id)
       IN  /\ spt_storage' = Store(spt_storage, spt_id, SptData(spt_id, form, now))
           /\ worker' = [worker EXCEPT ![w].pc = "respond",
                   ![w].resp = Some(
                       IF SptDataRaises(form)
                       THEN ErrorEnvelope(500, "processing_error", "internal_error")
                       ELSE CreatedResponse(spt_id, now))]
    /\ UNCHANGED <<now, ticks, direct, client, calls, result, runs>>

\* create_spt, lines 52-89: build the dict, store it, answer 201; a ValueError
\* of int() is answered 500 by the except clause
CreateSptStore(w) ==
    /\ worker[w].pc = "create_store"
    /\ LET form == Val(worker[w].form)
           spt_id == Val(worker[w].spt_id)
       IN  IF SptDataRaises(form)
           THEN /\ worker' = [worker EXCEPT ![w].pc = "respond",
                    ![w].resp = Some(ErrorEnvelope(500, "processing_error",
                                                   "internal_error"))]
                /\ UNCHANGED spt_storage
           ELSE /\ spt_storage' = Store(spt_storage, spt_id, SptData(spt_id, form, now))
                /\ worker' = [worker EXCEPT ![w].pc = "respond",
                    ![w].resp = Some(CreatedResponse(spt_id, now))]
    /\ UNCHANGED <<now, ticks, direct, client, calls, result, runs>>

\* get_spt that reads spt_storage[spt_id] without the membership test
GetSptBeginUnguarded(w, spt_id) ==
    /\ worker[w].pc = "idle"
    /\ worker' = [worker EXCEPT ![w] =
            [IdleWorker EXCEPT !.pc = "get_read", !.op = "get_spt",
                !.origin = "direct", !.spt_id = Some(spt_id)]]
    /\ UNCHANGED <<now, ticks, spt_storage, direct, client, calls, result, runs>>

\* get_spt, lines 98-105: the membership test
GetSptBegin(w, spt_id) ==
    /\ worker[w].pc = "idle"
    /\ worker' = [worker EXCEPT ![w] =
            IF spt_id \notin DOMAIN spt_storage
            THEN [IdleWorker EXCEPT !.pc = "respond", !.op = "get_spt",
                     !.origin = "direct", !.spt_id = Some(spt_id),
                     !.resp = Some(ErrorEnvelope(404, "invalid_request",
                                                 "spt_not_found"))]
            ELSE [IdleWorker EXCEPT !.pc = "get_read", !.op = "get_spt",
                     !.origin = "direct", !.spt_id = Some(spt_id)]]
    /\ UNCHANGED <<now, ticks, spt_storage, direct, client, calls, result, runs>>

\* get_spt, lines 107-143: read the dict, check the expiry, answer
GetSptRead(w) ==
    /\ worker[w].pc = "get_read"
    /\ LET spt_id == Val(worker[w].spt_id)
       IN  worker' = [worker EXCEPT ![w].pc = "respond", ![w].read_at = Some(now),
               ![w].resp = Some(
                   IF spt_id \notin DOMAIN spt_storage
                   THEN ErrorEnvelope(500, "processing_error", "internal_error")
                   ELSE IF IsExpired(spt_storage[spt_id], now)
                   THEN ErrorEnvelope(400, "invalid_request", "spt_expired")
                   ELSE GrantedResponse(spt_id, spt_storage[spt_id]))]
    /\ UNCHANGED <<now, ticks, spt_storage, direct, client, calls, result, runs>>

\* the body health returns
HealthResponse(storage) ==
    [ status |-> 200,
      json |-> [ status |-> "healthy", service |-> "mock-stripe-spt",
                 active_tokens |-> Cardinality(DOMAIN storage) ] ]

\* GET /health
health(w) ==
    /\ worker[w].pc = "idle"
    /\ worker' = [worker EXCEPT ![w] =
            [IdleWorker EXCEPT !.pc = "respond", !.op = "health",
                !.origin = "direct", !.resp = Some(HealthResponse(spt_storage))]]
    /\ UNCHANGED <<now, ticks, spt_storage, direct, client, calls, result, runs>>

\* an issuance request of another caller arrives
DirectCreate(w) ==
    /\ direct < MaxDirect
    /\ \E form \in DirectForms : CreateSptBegin(w, form, "direct", None)
    /\ direct' = direct + 1
    /\ UNCHANGED <<now, ticks, spt_storage, client, calls, result, runs>>

\* a lookup arrives
DirectGet(w) == \E spt_id \in LookupIds : GetSptBegin(w, spt_id)

\* the response of a request of another caller has been sent
DirectRespond(w) ==
    /\ worker[w].pc = "respond"
    /\ worker[w].origin = "direct"
    /\ worker' = [worker EXCEPT ![w] = IdleWorker]
    /\ UNCHANGED <<now, ticks, spt_storage, direct, client, calls, result, runs>>

\* ------------------------------------------------------- complete_checkout
CompleteArgs(payment_token, payment_provider, billing_address) ==
    [checkout_id |-> "cs_1", payment_token |-> payment_token,
     payment_provider |-> payment_provider, billing_address |-> billing_address]

\* the invocations of complete_checkout: the arguments and, with them, the change
\* of the local UTC offset over the day that follows (none, or an hour either way)
CompleteCalls ==
    { [args |-> CompleteArgs("pm_card_visa", DEFAULT_PAYMENT_PROVIDER, None),
       shift |-> 0],
      [args |-> CompleteArgs("pm_card_visa", "adyen",
                             Some({<<"postal_code", "94131">>})),
       shift |-> 3600],
      [args |-> CompleteArgs("pm_card_visa", DEFAULT_PAYMENT_PROVIDER, Some({})),
       shift |-> -3600],
      [args |-> CompleteArgs("", DEFAULT_PAYMENT_PROVIDER, None), shift |-> 0] }

CheckoutEndpoint(checkout_id) == "/checkout_sessions/" \o checkout_id

IssuerCall(form) ==
    [to |-> "issuer", method |-> "POST",
     endpoint |-> "/v1/shared_payment/issued_tokens", data |-> Some(form),
     outcome |-> None]

\* complete_checkout, lines 267-297: fetch the checkout, extract the total,
\* compute the expiry and post the issuance request
CompleteCheckoutBegin(args, outcome, shift) ==
    /\ client.pc = "idle"
    /\ runs < MaxRuns
    /\ runs' = runs + 1
    /\ LET endpoint == CheckoutEndpoint(args.checkout_id)
           checkout_response == Val(_make_request("GET", endpoint, None, outcome).ret)
           total_amount == _extract_total_amount_from_checkout(checkout_response)
           expires_at_timestamp == Tomorrow(now, shift)
           started == [IdleClient EXCEPT !.op = "complete_checkout",
                          !.args = Some(args),
                          !.checkout_response = Some(checkout_response)]
       IN  IF total_amount = None
           THEN /\ client' = IdleClient
                /\ calls' = <<SellerCall("GET", endpoint, None, outcome)>>
                /\ result' = [op |-> "complete_checkout"] @@ Raised("ValueError")
           ELSE LET form == IssuanceForm(args.payment_token, Val(total_amount),
                                         expires_at_timestamp)
                IN  /\ client' = [started EXCEPT !.pc = "issuing",
                           !.total_amount = total_amount,
                           !.expires_at_timestamp = Some(expires_at_timestamp),
                           !.form = Some(form)]
                    /\ calls' = <<SellerCall("GET", endpoint, None, outcome),
                                  IssuerCall(form)>>
                    /\ result' = NoResult
    /\ UNCHANGED <<now, ticks, spt_storage, worker, direct>>

\* a client that posts the issuance request again when requests.post raises
IssuerTransportFailureRetried ==
    /\ client.pc \in {"issuing", "waiting"}
    /\ client' = [client EXCEPT !.pc = "issuing"]
    /\ UNCHANGED <<now, ticks, spt_storage, worker, direct, calls, result, runs>>

\* requests.post to the issuer raises: no connection, or the response is lost
IssuerTransportFailure ==
    /\ client.pc \in {"issuing", "waiting"}
    /\ client' = IdleClient
    /\ result' = [op |-> "complete_checkout"] @@ Raised("ConnectionError")
    /\ UNCHANGED <<now, ticks, spt_storage, worker, direct, calls, runs>>

\* an issuer thread takes the issuance request of the client
ClientCreate(w) ==
    /\ client.pc = "issuing"
    /\ CreateSptBegin(w, Val(client.form), "client", client.total_amount)
    /\ client' = [client EXCEPT !.pc = "waiting"]
    /\ UNCHANGED <<now, ticks, spt_storage, direct, calls, result, runs>>

\* the issuer's response reaches the client, unless the client has given up
ClientRespond(w) ==
    /\ worker[w].pc = "respond"
    /\ worker[w].origin = "client"
    /\ worker' = [worker EXCEPT ![w] = IdleWorker]
    /\ IF client.pc = "waiting"
       THEN /\ client' = [client EXCEPT !.pc = "issued",
                                        !.issuer_response = worker[w].resp]
            /\ calls' = [calls EXCEPT ![2].outcome = worker[w].resp]
       ELSE UNCHANGED <<client, calls>>
    /\ UNCHANGED <<now, ticks, spt_storage, direct, result, runs>>

\* complete_checkout, lines 320-332: take the id of the response, build the body
\* and post it to the completion endpoint
CompleteCheckoutSubmit(outcome) ==
    /\ client.pc = "issued"
    /\ LET args == Val(client.args)
           spt_token_id == ResponseId(Val(client.issuer_response))
           endpoint == CheckoutEndpoint(args.checkout_id) \o "/complete"
       IN  IF spt_token_id = None
           THEN /\ result' = [op |-> "complete_checkout"] @@ Raised("KeyError")
                /\ UNCHANGED calls
           ELSE LET data == CompletionData(args.payment_token, Val(spt_token_id),
                                args.payment_provider, args.billing_address)
                IN  /\ calls' = Append(calls,
                                   SellerCall("POST", endpoint, Some(data), outcome))
                    /\ result' = [op |-> "complete_checkout"] @@
                           _make_request("POST", endpoint, Some(data), outcome)
    /\ client' = IdleClient
    /\ UNCHANGED <<now, ticks, spt_storage, worker, direct, runs>>

CompletionBodies == {[id |-> "cs_1", status |-> "completed"]}

\* -------------------------------------------- the other client operations
\* `if d` for an Optional[dict]; HasBilling is the same test
DictGiven(d) == d # None /\ Val(d) # {}

\* the arguments of create_checkout and update_checkout in the model
SomeItems == <<[id |-> "item_123", quantity |-> 1]>>
SomeBuyer == Some({<<"email", "ada@example.com">>})
SomeAddress == Some({<<"postal_code", "94131">>})

SessionArgs ==
    { [items |-> Some(SomeItems), buyer |-> None, fulfillment_address |-> None,
       fulfillment_option_id |-> None],
      [items |-> Some(SomeItems), buyer |-> SomeBuyer,
       fulfillment_address |-> SomeAddress,
       fulfillment_option_id |-> Some("shipping_fast")],
      [items |-> Some(<<>>), buyer |-> Some({}), fulfillment_address |-> Some({}),
       fulfillment_option_id |-> Some("")] }

\* one request to the seller and its result, as every pass-through operation
\* makes it
SellerRequest(op, method, endpoint, data, outcome) ==
    /\ client.pc = "idle"
    /\ runs < MaxRuns
    /\ runs' = runs + 1
    /\ calls' = <<SellerCall(method, endpoint, data, outcome)>>
    /\ result' = [op |-> op] @@ _make_request(method, endpoint, data, outcome)
    /\ UNCHANGED <<now, ticks, spt_storage, worker, direct, client>>

create_checkout(items, buyer, fulfillment_address, outcome) ==
    SellerRequest("create_checkout", "POST", "/checkout_sessions",
        Some([ items |-> Some(items),
               buyer |-> IF DictGiven(buyer) THEN buyer ELSE None,
               fulfillment_address |->
                   IF DictGiven(fulfillment_address)
                   THEN fulfillment_address ELSE None ]),
        outcome)

get_checkout(checkout_id, outcome) ==
    SellerRequest("get_checkout", "GET", CheckoutEndpoint(checkout_id), None, outcome)

update_checkout(checkout_id, items, buyer, address, option_id, outcome) ==
    SellerRequest("update_checkout", "POST", CheckoutEndpoint(checkout_id),
        Some([ items |-> items,
               buyer |-> IF DictGiven(buyer) THEN buyer ELSE None,
               fulfillment_address |-> IF DictGiven(address) THEN address ELSE None,
               fulfillment_option_id |->
                   IF option_id # None /\ Val(option_id) # ""
                   THEN option_id ELSE None ]),
        outcome)

cancel_checkout(checkout_id, outcome) ==
    SellerRequest("cancel_checkout", "POST",
        CheckoutEndpoint(checkout_id) \o "/cancel", Some({}), outcome)

SessionBodies == {[id |-> "cs_1", status |-> "ready_for_payment"]}

\* ------------------------------------------------------------ specification
\* the issuer under the requests of arbitrary callers
NextIssuer ==
    \/ Tick
    \/ \E w \in Workers : DirectCreate(w)
    \/ \E w \in Workers : DirectGet(w)
    \/ \E w \in Workers : CreateSptStore(w)
    \/ \E w \in Workers : GetSptRead(w)
    \/ \E w \in Workers : health(w)
    \/ \E w \in Workers : DirectRespond(w)

SpecIssuer == Init /\ [][NextIssuer]_vars

\* the client against the seller, and the issuer serving complete_checkout
Next ==
    \/ Tick
    \/ \E a \in SessionArgs, outcome \in SellerOutcomes(SessionBodies) :
          create_checkout(Val(a.items), a.buyer, a.fulfillment_address, outcome)
    \/ \E outcome \in SellerOutcomes(SellerCheckouts) : get_checkout("cs_1", outcome)
    \/ \E a \in SessionArgs \cup {[b EXCEPT !.items = None] : b \in SessionArgs},
          outcome \in SellerOutcomes(SessionBodies) :
          update_checkout("cs_1", a.items, a.buyer, a.fulfillment_address,
                          a.fulfillment_option_id, outcome)
    \/ \E outcome \in SellerOutcomes(SessionBodies) : cancel_checkout("cs_1", outcome)
    \/ \E w \in Workers : CreateSptStore(w)
    \/ \E c \in CompleteCalls, outcome \in SellerOutcomes(SellerCheckouts) :
          CompleteCheckoutBegin(c.args, outcome, c.shift)
    \/ IssuerTransportFailure
    \/ \E w \in Workers : ClientCreate(w)
    \/ \E w \in Workers : ClientRespond(w)
    \/ \E outcome \in SellerOutcomes(CompletionBodies) : CompleteCheckoutSubmit(outcome)

Spec == Init /\ [][Next]_vars

\* total extraction alone, over every body and every error result of the fetch
ExtractInputs ==
    CheckoutBodies \cup
    {Val(_make_request("GET", CheckoutEndpoint("cs_1"), None, o).ret) :
        o \in SellerOutcomes({})}

InitExtract ==
    /\ now = Epoch
    /\ ticks = 0
    /\ spt_storage = <<>>
    /\ worker = [w \in Workers |-> IdleWorker]
    /\ direct = 0
    /\ \E r \in ExtractInputs :
           client = [IdleClient EXCEPT !.op = "extract", !.checkout_response = Some(r)]
    /\ calls = <<>>
    /\ result = NoResult
    /\ runs = 0

Extract ==
    /\ client.op = "extract"
    /\ result = NoResult
    /\ LET total_amount ==
               _extract_total_amount_from_checkout(Val(client.checkout_response))
       IN  /\ client' = [client EXCEPT !.total_amount = total_amount]
           /\ result' = [op |-> "_extract_total_amount_from_checkout"] @@
                  (IF total_amount = None THEN Raised("ValueError")
                   ELSE Returned(Val(total_amount)))
    /\ UNCHANGED <<now, ticks, spt_storage, worker, direct, calls, runs>>

SpecExtract == InitExtract /\ [][Extract]_vars

\* ---------------------------------------------------------------- properties
IsCompleteRun == client.op = "complete_checkout" \/ result.op = "complete_checkout"

IsFetch(c) ==
    c.to = "seller" /\ c.method = "GET" /\ c.endpoint = "/checkout_sessions/cs_1"

IsIssuance(c) == c.to = "issuer" /\ c.method = "POST"

IsCompletion(c) ==
    /\ c.to = "seller"
    /\ c.method = "POST"
    /\ c.endpoint = "/checkout_sessions/cs_1/complete"

\* the seller answered the fetch with a body that has an entry of type "total"
HasTotalEntry(outcome) ==
    /\ outcome.kind = "ok"
    /\ "totals" \in DOMAIN outcome.json
    /\ \E i \in 1..Len(outcome.json.totals) :
           outcome.json.totals[i].type = Some("total")

\* the issuer answered the issuance request with a success status and an id
IssuanceOk(c) ==
    /\ c.outcome # None
    /\ Val(c.outcome).status \in 200..299
    /\ "id" \in DOMAIN Val(c.outcome).json

\* C1: whenever an issuer thread stores a token for an issuance request sent by
\* complete_checkout, the stored usage_limits.max_amount is the integer total
\* that this run extracted from its checkout; a request it does not answer 201
\* stores nothing.
C1_StoredCapIsRunTotal ==
    [][\A w \in Workers :
         (worker[w].origin = "client" /\ worker[w].pc = "create_store"
             /\ worker'[w].pc = "respond")
         => IF Val(worker'[w].resp).status = 201
            THEN /\ worker[w].total # None
                 /\ Val(worker[w].total).t = "int"
                 /\ spt_storage'[Val(worker[w].spt_id)].usage_limits.max_amount
                        = Some(Val(worker[w].total).v)
            ELSE spt_storage' = spt_storage]_vars

C1_Witness ==
    \E w \in Workers :
        /\ worker[w].origin = "client"
        /\ worker[w].pc = "respond"
        /\ Val(worker[w].resp).status = 201
        /\ worker[w].total = Some([t |-> "int", v |-> 0])
        /\ spt_storage[Val(worker[w].spt_id)].usage_limits.max_amount = Some(0)

\* C2: in a run of complete_checkout the completion call is the third request,
\* after a fetch that produced a total and an issuance answered with a success
\* status and an id; a run whose issuance request failed, was rejected or was
\* answered without an id ends with an exception and sends no completion call.
C2_CompletionAfterFetchAndIssuance ==
    IsCompleteRun =>
        /\ \A i \in 1..Len(calls) :
               IsCompletion(calls[i]) =>
                   /\ i = 3
                   /\ IsFetch(calls[1])
                   /\ HasTotalEntry(Val(calls[1].outcome))
                   /\ IsIssuance(calls[2])
                   /\ IssuanceOk(calls[2])
        /\ (result.op = "complete_checkout" /\ Len(calls) >= 2
                /\ ~IssuanceOk(calls[2]))
           => (result.exc # None /\ Len(calls) = 2)

C2_Witness ==
    /\ result.op = "complete_checkout"
    /\ Len(calls) = 3
    /\ IsCompletion(calls[3])

\* C3: a run of complete_checkout whose fetch returned no entry of type "total"
\* (no or empty totals, or the error result of a failed fetch) ends with
\* ValueError after the fetch alone: no issuance request, no completion call.
C3_NoTotalAborts ==
    (IsCompleteRun /\ Len(calls) >= 1 /\ ~HasTotalEntry(Val(calls[1].outcome)))
    => /\ result.op = "complete_checkout"
       /\ result.exc = Some("ValueError")
       /\ Len(calls) = 1
       /\ client.pc = "idle"
       /\ \A w \in Workers : worker[w].origin = "client" => runs > 1

C3_Witness ==
    /\ result.op = "complete_checkout"
    /\ result.exc = Some("ValueError")
    /\ Len(calls) = 1
    /\ Val(calls[1].outcome).kind = "ok"
    /\ "totals" \in DOMAIN Val(calls[1].outcome).json
    /\ Len(Val(calls[1].outcome).json.totals) = 1
    /\ spt_storage = <<>>

\* C4: for a checkout response with an entry of type "total", extraction
\* returns the amount of the first such entry in the order of totals.
C4_FirstTotalWins ==
    (/\ result.op = "_extract_total_amount_from_checkout"
     /\ "totals" \in DOMAIN Val(client.checkout_response)
     /\ \E i \in 1..Len(Val(client.checkout_response).totals) :
            Val(client.checkout_response).totals[i].type = Some("total"))
    => LET totals == Val(client.checkout_response).totals
           first == CHOOSE i \in 1..Len(totals) :
                        /\ totals[i].type = Some("total")
                        /\ \A j \in 1..(i - 1) : totals[j].type # Some("total")
       IN  /\ result.exc = None
           /\ result.ret = Some(totals[first].amount)

C4_Witness ==
    /\ result.op = "_extract_total_amount_from_checkout"
    /\ "totals" \in DOMAIN Val(client.checkout_response)
    /\ LET totals == Val(client.checkout_response).totals
       IN  /\ Len(totals) = 2
           /\ totals[1].type = Some("total")
           /\ totals[2].type = Some("total")
           /\ totals[1].amount # totals[2].amount
           /\ result.ret = Some(totals[1].amount)

\* a thread takes its step from pc `from` to answering
Answers(w, from) == worker[w].pc = from /\ worker'[w].pc = "respond"

IsError(resp, status, code) ==
    /\ resp.status = status
    /\ "error" \in DOMAIN resp.json
    /\ resp.json.error.code = code

C6_PastExpiryIsRejected ==
    [][\A w \in Workers :
         (/\ Answers(w, "get_read")
          /\ Val(worker[w].spt_id) \in DOMAIN spt_storage
          /\ spt_storage[Val(worker[w].spt_id)].usage_limits.expires_at # None
          /\ now > Val(spt_storage[Val(worker[w].spt_id)].usage_limits.expires_at))
         => /\ IsError(Val(worker'[w].resp), 400, "spt_expired")
            /\ Val(worker[w].spt_id) \in DOMAIN spt_storage']_vars

\* the integers the issuance requests of the model carry
FormInts == {-5, 0, 1200, Epoch, Epoch + SecondsPerDay}

\* an issuance request with a payment_method, an integer max_amount m and an
\* expires_at that is absent or the integer e
IsIssuanceOf(form, m, e) ==
    /\ form.payment_method # None
    /\ Val(form.payment_method) # ""
    /\ form.max_amount = Chars(m)
    /\ form.expires_at = (IF e = None THEN None ELSE Chars(Val(e)))

\* the record of a 200 response carries the values of the request
CarriesRequest(json, form, m, e) ==
    /\ json.payment_method = Val(form.payment_method)
    /\ json.usage_limits.max_amount = Some(m)
    /\ json.usage_limits.expires_at = e
    /\ json.usage_limits.currency =
           (IF form.currency = None THEN Some("usd") ELSE form.currency)
    /\ json.seller_details.network_id = form.network_id
    /\ json.seller_details.external_id = form.external_id

C8_MissingPaymentMethodRejected ==
    [][/\ \A w \in Workers :
            (/\ worker[w].pc = "idle"
             /\ worker'[w].op = "create_spt"
             /\ Val(worker'[w].form).payment_method \in {None, Some("")})
            => /\ worker'[w].pc = "respond"
               /\ IsError(Val(worker'[w].resp), 400, "missing_payment_method")
               /\ worker'[w].spt_id = None
               /\ spt_storage' = spt_storage
       /\ spt_storage' # spt_storage
            => \E w \in Workers :
                   /\ Answers(w, "create_store")
                   /\ Val(worker[w].form).payment_method \notin {None, Some("")}]_vars

C8_Witness ==
    \E w \in Workers :
        /\ worker[w].pc = "respond"
        /\ worker[w].op = "create_spt"
        /\ Val(worker[w].form).payment_method = Some("")
        /\ IsError(Val(worker[w].resp), 400, "missing_payment_method")
        /\ spt_storage # <<>>

\* C9: the completion call is made by the step that follows the issuer's
\* response, and its body is payment_data = {token: the id of that response,
\* provider: the provider argument} plus the billing address if and only if a
\* non-empty one was passed.
C9_CompletionBody ==
    [][(Len(calls') = 3 /\ Len(calls) # 3)
       => /\ client.pc = "issued"
          /\ IsIssuance(calls[2])
          /\ calls[2].outcome = client.issuer_response
          /\ LET args == Val(client.args)
                 body == Val(calls'[3].data)
             IN  /\ IsCompletion(calls'[3])
                 /\ DOMAIN body = {"payment_data", "billing_address"}
                 /\ body.payment_data =
                        [token |-> Val(calls[2].outcome).json.id,
                         provider |-> args.payment_provider]
                 /\ body.payment_data.token \in IdSpace
                 /\ body.payment_data.token # args.payment_token
                 /\ body.billing_address =
                        (IF args.billing_address \in {None, Some({})}
                         THEN None ELSE args.billing_address)]_vars

C9_Witness ==
    /\ Len(calls) = 3
    /\ result.op = "complete_checkout"
    /\ Val(calls[3].data).payment_data.provider = "adyen"
    /\ Val(calls[3].data).billing_address # None

ClientOps ==
    {"create_checkout", "get_checkout", "update_checkout", "complete_checkout",
     "cancel_checkout"}

\* a call to the seller that failed at the transport level
SellerFailure(c) == c.to = "seller" /\ Val(c.outcome).kind # "ok"

\* the structured error result of a failed call
IsErrorResult(r, c) ==
    /\ r.exc = None
    /\ DOMAIN Val(r.ret) = {"error", "status_code"}
    /\ Val(r.ret).status_code =
           (IF Val(c.outcome).kind = "http_error"
            THEN Some(Val(c.outcome).status) ELSE None)

\* C10 as stated: an operation one of whose calls to the seller failed returns
\* {error, status_code} and raises nothing.
C10_FailureAlwaysReturned ==
    (result.op \in ClientOps)
    => \A i \in DOMAIN calls :
           SellerFailure(calls[i]) => IsErrorResult(result, calls[i])

\* C10: a failed call of create_checkout, get_checkout, update_checkout or
\* cancel_checkout, and a failed completion call of complete_checkout, make the
\* operation return {error, status_code}, with the HTTP status when there was a
\* response; a failed checkout fetch of complete_checkout is the only call of
\* its run, which ends in ValueError.
C10_FailureReturnedOrNoTotal ==
    (result.op \in ClientOps)
    => \A i \in DOMAIN calls :
           SellerFailure(calls[i])
           => IF result.op = "complete_checkout" /\ i = 1
              THEN result.exc = Some("ValueError") /\ Len(calls) = 1
              ELSE IsErrorResult(result, calls[i])

C10_Witness ==
    /\ result.op = "complete_checkout"
    /\ Len(calls) = 3
    /\ Val(calls[3].outcome).kind = "http_error"
    /\ Val(result.ret).status_code = Some(Val(calls[3].outcome).status)

\* the three outcomes of a lookup
IsNotFound(resp) == IsError(resp, 404, "spt_not_found")
IsExpiredError(resp) == IsError(resp, 400, "spt_expired")
IsRecord(resp) == resp.status = 200 /\ "error" \notin DOMAIN resp.json

\* C11: a lookup of an identifier that is not a key of spt_storage is answered
\* 404 spt_not_found at once; a lookup of a key goes on to the expiry check and
\* is answered spt_expired or with the record; spt_storage is not changed.
C11_UnknownIdNotFound ==
    [][\A w \in Workers :
         /\ (worker[w].pc = "idle" /\ worker'[w].op = "get_spt")
            => /\ spt_storage' = spt_storage
               /\ IF Val(worker'[w].spt_id) \notin DOMAIN spt_storage
                  THEN /\ worker'[w].pc = "respond"
                       /\ IsNotFound(Val(worker'[w].resp))
                  ELSE /\ worker'[w].pc = "get_read"
                       /\ worker'[w].resp = None
         /\ (Answers(w, "get_read") /\ worker[w].op = "get_spt")
            => /\ spt_storage' = spt_storage
               /\ ~IsNotFound(Val(worker'[w].resp))
               /\ IsExpiredError(Val(worker'[w].resp))
                      # IsRecord(Val(worker'[w].resp))]_vars

C11_Witness ==
    \E w \in Workers :
        /\ worker[w].pc = "respond"
        /\ worker[w].op = "get_spt"
        /\ IsNotFound(Val(worker[w].resp))
        /\ Val(worker[w].spt_id) \notin DOMAIN spt_storage
        /\ spt_storage # <<>>
        /\ now > Epoch

\* thread w has the answer of a lookup in hand
HasLookedUp(w) ==
    worker[w].pc = "respond" /\ worker[w].op = "get_spt"

PostsIssuance == client.pc = "idle" /\ client'.pc = "issuing"

\* C13: the expires_at of the issuance request of complete_checkout is the time
\* of the request plus 86400 seconds, later than that time, whatever the checkout
\* that was fetched.
C13_ExpiryIsOneDayAhead ==
    [][PostsIssuance
       => /\ client'.expires_at_timestamp = Some(now + SecondsPerDay)
          /\ Val(client'.form).expires_at = Chars(now + SecondsPerDay)
          /\ Val(client'.expires_at_timestamp) > now]_vars

\* a stored dict with every key of the literal in create_spt
IsWholeRecord(spt_data) ==
    /\ DOMAIN spt_data =
           {"id", "payment_method", "usage_limits", "seller_details",
            "created_at", "status"}
    /\ DOMAIN spt_data.usage_limits = {"currency", "max_amount", "expires_at"}
    /\ DOMAIN spt_data.seller_details = {"network_id", "external_id"}

\* thread v is between drawing spt_id and storing the record
IsIssuing(v, spt_id) ==
    worker[v].pc = "create_store" /\ worker[v].spt_id = Some(spt_id)

\* C14: every value of spt_storage is a whole record, so a lookup that runs
\* while another thread issues the same identifier is answered not-found,
\* expired, or with every field of a record.
C14_LookupSeesWholeRecord ==
    /\ \A spt_id \in DOMAIN spt_storage :
           /\ IsWholeRecord(spt_storage[spt_id])
           /\ spt_storage[spt_id].id = spt_id
    /\ \A w \in Workers :
           (HasLookedUp(w) /\ IsRecord(Val(worker[w].resp)))
           => DOMAIN Val(worker[w].resp).json =
                  {"id", "object", "payment_method", "usage_limits",
                   "seller_details", "created", "status", "livemode"}

C14_Witness ==
    \E w \in Workers, v \in Workers :
        /\ HasLookedUp(w)
        /\ IsNotFound(Val(worker[w].resp))
        /\ IsIssuing(v, Val(worker[w].spt_id))

\* an issuer thread takes up a request of the client in this step
TakesClientRequest(w) ==
    worker[w].origin # "client" /\ worker'[w].origin = "client"

\* C15: a run of complete_checkout sends its requests in one pass, the fetch,
\* then the issuance request, then the completion call, each at most once: the
\* issuance request is posted only on entering the run and reaches the issuer
\* once, and the issuer stores no more tokens than there were runs.
C15_EachHopAtMostOnce ==
    [][/\ (client'.op = "complete_checkout" \/ result'.op = "complete_checkout")
          => /\ Len(calls') \in 1..3
             /\ IsFetch(calls'[1])
             /\ Len(calls') >= 2 => IsIssuance(calls'[2])
             /\ Len(calls') = 3 => IsCompletion(calls'[3])
             /\ client.pc # "idle" => Len(calls') >= Len(calls)
       /\ (client'.pc = "issuing" /\ client.pc # "issuing")
          => (client.pc = "idle" /\ runs' = runs + 1)
       /\ \A w \in Workers :
            TakesClientRequest(w)
            => /\ client.pc = "issuing"
               /\ client'.pc = "waiting"
               /\ \A v \in Workers \ {w} : ~TakesClientRequest(v)
       /\ Cardinality(DOMAIN spt_storage') <= runs']_vars

C15_Witness ==
    /\ result.op = "complete_checkout"
    /\ Len(calls) = 3
    /\ Val(calls[3].outcome).kind = "no_response"
    /\ Cardinality(DOMAIN spt_storage) = 1
    /\ runs = 1

StoredExpiry(w) == spt_storage[Val(worker[w].spt_id)].usage_limits.expires_at

\* C17: a lookup that reads the clock at exactly the stored expires_at is
\* answered with the record, and a lookup answered spt_expired has read a clock
\* greater than the stored expires_at.
C17_ExpiryIsStrict ==
    [][\A w \in Workers :
         (Answers(w, "get_read") /\ worker[w].op = "get_spt")
         => /\ StoredExpiry(w) = Some(now) => IsRecord(Val(worker'[w].resp))
            /\ IsExpiredError(Val(worker'[w].resp))
               => (StoredExpiry(w) # None /\ now > Val(StoredExpiry(w)))]_vars

C17_Witness ==
    \E w \in Workers :
        /\ HasLookedUp(w)
        /\ IsRecord(Val(worker[w].resp))
        /\ Val(worker[w].resp).json.usage_limits.expires_at = worker[w].read_at
        /\ worker[w].read_at = Some(now)

\* thread w has answered 201 to an issuance request that carried a
\* payment_method and no usage_limits[expires_at]
IssuedWithoutExpiry(w) ==
    /\ worker[w].op = "create_spt"
    /\ Val(worker[w].form).expires_at = None
    /\ Val(worker[w].resp).status = 201

LooksUpAgain(v, w) ==
    /\ HasLookedUp(w)
    /\ worker'[v].op = "get_spt"
    /\ worker'[v].pc = "respond"
    /\ worker[v].pc # "respond"
    /\ worker'[v].spt_id = worker[w].spt_id

HasIssued(w) == worker[w].pc = "respond" /\ worker[w].op = "create_spt"

\* C20: the step in which create_spt answers writes spt_storage exactly when the
\* answer is 201, and then under the id of the answer; an answer that is not 201
\* is a 400 or 500 error envelope and leaves spt_storage as it was; the id of a
\* 201 answer is a key of spt_storage.
C20_StoredIffCreated ==
    [][/\ \A w \in Workers :
            /\ (HasIssued(w)' /\ ~HasIssued(w))
               => IF Val(worker'[w].resp).status = 201
                  THEN /\ Answers(w, "create_store")
                       /\ Val(worker'[w].resp).json.id \in DOMAIN spt_storage'
                       /\ spt_storage'[Val(worker'[w].resp).json.id].payment_method
                              = Val(Val(worker[w].form).payment_method)
                       /\ \A spt_id \in DOMAIN spt_storage' :
                              spt_id # Val(worker'[w].resp).json.id
                              => /\ spt_id \in DOMAIN spt_storage
                                 /\ spt_storage'[spt_id] = spt_storage[spt_id]
                  ELSE /\ Val(worker'[w].resp).status \in {400, 500}
                       /\ "error" \in DOMAIN Val(worker'[w].resp).json
                       /\ spt_storage' = spt_storage
            /\ (HasIssued(w)' /\ Val(worker'[w].resp).status = 201)
               => Val(worker'[w].resp).json.id \in DOMAIN spt_storage'
       /\ spt_storage' # spt_storage
          => \E w \in Workers :
                 /\ Answers(w, "create_store")
                 /\ Val(worker'[w].resp).status = 201]_vars

C20_Witness ==
    \E w \in Workers, v \in Workers :
        /\ HasIssued(w)
        /\ Val(worker[w].resp).status = 500
        /\ HasIssued(v)
        /\ Val(worker[v].resp).status = 201
        /\ DOMAIN spt_storage = {Val(worker[v].resp).json.id}

====
